---- MODULE Spec2Model ----
(***************************************************************************)
(* Measurement session of frontend/static/js/home.js: face polling, gated  *)
(* recording, countdown, submission to /predict and result rendering.      *)
(* Every handler of the page (event listener, timer callback, promise      *)
(* continuation) is one action; the browser runs them one at a time, in    *)
(* any order the timers, the recorder and the network allow.               *)
(***************************************************************************)
EXTENDS Integers, Sequences, FiniteSets, TLC

\* ---------------------------------------------------------------- bounds
MaxSessions == 2      \* sessions whose timers are alive at the same time
MaxDetections == 2    \* estimateFaces calls in flight at once
MaxReverts == 1       \* pending 3 s revert timers
MaxChunks == 2        \* dataavailable events per recording
MaxCountdown == 2     \* seconds of recording explored (the page records 30)
HrLo == 69            \* heart rates the endpoint answers with: HrLo..HrHi
HrHi == 103
SysLo == 99           \* systolic pressures: SysLo..SysHi
SysHi == 137

\* ------------------------------------------------------ program constants
TickMs == 1000
measurementDuration == MaxCountdown * TickMs

\* ------------------------------------------------------------ status text
Txt(k, n, m) == [kind |-> k, n |-> n, msg |-> m]
LoadingMsg == Txt("Loading face detection model...", 0, "")
ReadyMsg == Txt("Ready to start monitoring.", 0, "")
ModelErrorMsg == Txt("Error: Could not load face detection model.", 0, "")
WebcamErrorMsg == Txt("Error: Could not access webcam.", 0, "")
RejectMsg == Txt("Please ensure your face is detected before starting.", 0, "")
RecordingMsg(n) == Txt("Recording... s remaining", n, "")
ProcessingMsg == Txt("Processing... Please wait.", 0, "")
CompleteMsg == Txt("Measurement complete. Ready to start monitoring.", 0, "")
ErrorMsg(m) == Txt("Error: ", 0, m)

\* ------------------------------------------------------------ face gate
GreenClass == {"status-indicator", "green"}
RedClass == {"status-indicator", "red"}
FaceGateOpen_Mutant(classList) == ~("red" \in classList)
FaceGateOpen(classList) == "green" \in classList

\* ------------------------------------------------------------ JSON values
Num(n) == [t |-> "number", v |-> n]
Undefined == [t |-> "undefined", v |-> 0]
IllTyped == [t |-> "string", v |-> 0]
Obj(e, hr, sys, dia) ==
  [parse |-> "object", error |-> e, heart_rate |-> hr, systolic_bp |-> sys,
   diastolic_bp |-> dia]
NotJson == [Obj("", Undefined, Undefined, Undefined) EXCEPT !.parse = "fail"]
JsonNull == [Obj("", Undefined, Undefined, Undefined) EXCEPT !.parse = "null"]
EmptyObj == Obj("", Undefined, Undefined, Undefined)
ErrorObj == Obj("bad video", Undefined, Undefined, Undefined)
MetricsObj(hr, sys, dia) == Obj("", Num(hr), Num(sys), Num(dia))

\* bodies the endpoint is made to answer with
MetricsSamples == {MetricsObj(95, 130, 85)}
MalformedSamples == {Obj("", IllTyped, Undefined, Num(85))}
OkBodies == {NotJson, JsonNull} \cup MetricsSamples \cup MalformedSamples
ErrorBodies == {NotJson, JsonNull, EmptyObj, ErrorObj}
Responses ==
  {[status |-> "failed", body |-> NotJson]}
    \cup [status : {"ok"}, body : OkBodies]
    \cup [status : {"error"}, body : ErrorBodies]

WellFormed(b) ==
  /\ b.parse = "object"
  /\ b.heart_rate.t = "number"
  /\ b.systolic_bp.t = "number"
  /\ b.diastolic_bp.t = "number"

\* messages of the exceptions the runtime itself raises
FetchFailedText == "Failed to fetch"
SyntaxErrorText == "Unexpected token in JSON"
NullReadText == "Cannot read properties of null"

\* ------------------------------------------------------------ recorder
RECURSIVE Blob(_)
Blob(chunks) ==
  IF chunks = <<>> THEN <<>> ELSE Head(chunks) \o Blob(Tail(chunks))

ChunkValues == {<<>>, <<1>>, <<2>>}
ChunkEvents == UNION {[1..n -> ChunkValues] : n \in 0..MaxChunks}

\* ------------------------------------------------------------ rendering
HtmlText == <<[t |-> "html", v |-> 0], "">>
Gt_Mutant(f, k) == f.t = "number" /\ f.v >= k
\* `field > k` (lines 156-157): false for every field that is not a number
Gt(f, k) == f.t = "number" /\ f.v > k
StressOf_Mutant(data) ==
  IF Gt(data.heart_rate, 85) \/ Gt(data.systolic_bp, 135) THEN "High"
  ELSE IF Gt(data.heart_rate, 85) \/ Gt(data.systolic_bp, 125) THEN "Moderate"
  ELSE "Normal"

\* the stress level of displayResults (lines 155-157)
StressOf(data) ==
  IF Gt(data.heart_rate, 100) \/ Gt(data.systolic_bp, 135) THEN "High"
  ELSE IF Gt(data.heart_rate, 85) \/ Gt(data.systolic_bp, 125) THEN "Moderate"
  ELSE "Normal"

\* the id setInterval returns: one no live timer has (the variable that
\* held an older id is overwritten by every caller)
FreshTimer(live) == CHOOSE i \in 1..(Cardinality(live) + 1) : i \notin live

Remove(seq, i) == SubSeq(seq, 1, i - 1) \o SubSeq(seq, i + 1, Len(seq))

VARIABLES
  initPc,             \* position of the DOMContentLoaded handler
  model,              \* BlazeFace model loaded
  stream,             \* "none" | "live": the camera stream
  videoReady,         \* webcamElement.readyState >= 2
  predictBtnDisabled,
  statusText,
  faceIndicatorClass, \* classList of the indicator
  faceIndicatorText,
  faceCheckInterval,  \* id held by the variable (0: undefined)
  pollTimers,         \* ids of the setInterval(detectFace) timers alive
  detections,         \* estimateFaces calls in flight, in start order
  recState,           \* "none" (mediaRecorder undefined) | "inactive" | "recording"
  recStopping,        \* recorder inactivated, stop event not yet delivered
  recordedChunks,
  fetches,            \* POST /predict requests in flight (their payloads)
  tickTimers,         \* live countdown intervals: [sess, countdown], sess
                      \* counting the requests accepted since (0: the latest)
  stopTimers,         \* armed 30 s stop timeouts, by the same count
  revertTimers,       \* armed 3 s revert timeouts
  resultsPlaceholder, \* style.display
  resultsGrid,        \* style.display
  hrValue, bpValue, stressValue,
  inSession,          \* history: a request was accepted and its result or
                      \* error is not yet shown
  sessStarts,         \* history: recorder starts of the current session
  sessSubmits,        \* history: submissions of the current session
  lastEvent           \* history: "detectFace:notReady" or "detectFace:catch"
                      \* right after a poll that took that branch,
                      \* "revertTimeout" right after a 3 s revert timeout,
                      \* else "other"

face == <<faceIndicatorClass, faceIndicatorText>>
polling == <<faceCheckInterval, pollTimers>>
recorder == <<recState, recStopping, recordedChunks>>
display == <<resultsPlaceholder, resultsGrid, hrValue, bpValue, stressValue>>
session == <<inSession, sessStarts, sessSubmits>>
timers == <<tickTimers, stopTimers, revertTimers>>
vars == <<initPc, model, stream, videoReady, predictBtnDisabled, statusText,
          face, polling, detections, recorder, fetches, timers, display,
          session, lastEvent>>

Init ==
  /\ initPc = "loadModel"
  /\ model = FALSE
  /\ stream = "none"
  /\ videoReady = FALSE
  /\ predictBtnDisabled \in BOOLEAN
  /\ statusText = LoadingMsg
  /\ faceIndicatorClass = {"status-indicator"}
  /\ faceIndicatorText = ""
  /\ faceCheckInterval = 0
  /\ pollTimers = {}
  /\ detections = <<>>
  /\ recState = "none"
  /\ recStopping = FALSE
  /\ recordedChunks = <<>>
  /\ fetches = <<>>
  /\ tickTimers = {}
  /\ stopTimers = {}
  /\ revertTimers = 0
  /\ resultsPlaceholder = "block"
  /\ resultsGrid = "none"
  /\ hrValue = HtmlText
  /\ bpValue = HtmlText
  /\ stressValue = "--"
  /\ inSession = FALSE
  /\ sessStarts = 0
  /\ sessSubmits = 0
  /\ lastEvent = "other"

\* ------------------------------------------------- page initialisation
\* loadModel (lines 21-31), resumed after `await blazeface.load()`
LoadModel(ok) ==
  /\ initPc = "loadModel"
  /\ model' = ok
  /\ statusText' = IF ok THEN ReadyMsg ELSE ModelErrorMsg
  /\ initPc' = "getUserMedia"
  /\ lastEvent' = "other"
  /\ UNCHANGED <<stream, videoReady, predictBtnDisabled, face, polling,
                 detections, recorder, fetches, timers, display, session>>

\* initializeWebcam (lines 34-65) up to the end of the async function
InitializeWebcam(outcome) ==
  /\ initPc = "getUserMedia"
  /\ CASE outcome = "unsupported" ->
            /\ initPc' = "done"
            /\ UNCHANGED <<stream, statusText, faceIndicatorText>>
       [] outcome = "granted" ->
            /\ initPc' = "metadata"
            /\ stream' = "live"
            /\ UNCHANGED <<statusText, faceIndicatorText>>
       [] outcome = "denied" ->
            /\ initPc' = "done"
            /\ statusText' = WebcamErrorMsg
            /\ faceIndicatorText' = "Camera Error"
            /\ UNCHANGED stream
  /\ lastEvent' = "other"
  /\ UNCHANGED <<model, videoReady, predictBtnDisabled, faceIndicatorClass,
                 polling, detections, recorder, fetches, timers, display,
                 session>>

\* webcamElement.onloadedmetadata (lines 41-57); `new MediaRecorder` throws
\* when video/webm is not supported, which ends the handler at line 45
OnLoadedMetadata(supported) ==
  /\ initPc = "metadata"
  /\ stream = "live"
  /\ initPc' = "done"
  /\ predictBtnDisabled' = FALSE
  /\ IF supported
       THEN /\ recState' = "inactive"
            /\ IF model
                 THEN /\ faceCheckInterval' = FreshTimer(pollTimers)
                      /\ pollTimers' = pollTimers \cup {FreshTimer(pollTimers)}
                 ELSE UNCHANGED polling
       ELSE UNCHANGED <<recState, polling>>
  /\ lastEvent' = "other"
  /\ UNCHANGED <<model, stream, videoReady, statusText, face, detections,
                 recStopping, recordedChunks, fetches, timers,
                 display, session>>

\* the video element gets its first frame (readyState >= 2, line 69)
VideoReady ==
  /\ initPc = "done"
  /\ stream = "live"
  /\ ~videoReady
  /\ videoReady' = TRUE
  /\ lastEvent' = "other"
  /\ UNCHANGED <<initPc, model, stream, predictBtnDisabled, statusText, face,
                 polling, detections, recorder, fetches, timers, display,
                 session>>

\* ------------------------------------------------------------ FaceMonitor
NotReady_Mutant(m, ready) == ~m
NotReady(m, ready) == ~m \/ ~ready

\* detectFace (lines 68-75): one tick of a polling interval, up to the await
DetectFace ==
  /\ pollTimers # {}
  /\ IF NotReady(model, videoReady)
       THEN /\ lastEvent' = "detectFace:notReady"
            /\ UNCHANGED detections
       ELSE /\ Len(detections) < MaxDetections
            /\ detections' = Append(detections, [stale |-> FALSE])
            /\ lastEvent' = "other"
  /\ UNCHANGED <<initPc, model, stream, videoReady, predictBtnDisabled,
                 statusText, face, polling, recorder, fetches, timers,
                 display, session>>

IndicatorAfter_Mutant(res, cls, txt) ==
  IF res = "face" THEN <<GreenClass, "Face Detected">>
  ELSE <<RedClass, "No Face Detected">>

\* the indicator after estimateFaces settled (lines 77-86)
IndicatorAfter(res, cls, txt) ==
  CASE res = "face" -> <<GreenClass, "Face Detected">>
    [] res = "noface" -> <<RedClass, "No Face Detected">>
    [] OTHER -> <<cls, txt>>

\* polls started before poll i are overtaken once poll i has set the signal
Overtake(ds, i) ==
  [j \in 1..Len(ds) |-> IF j < i THEN [ds[j] EXCEPT !.stale = TRUE] ELSE ds[j]]

\* detectFace (lines 75-86), resumed when estimateFaces settles
DetectFaceResume(i, res) ==
  /\ i \in 1..Len(detections)
  /\ LET after == IndicatorAfter(res, faceIndicatorClass, faceIndicatorText)
     IN /\ faceIndicatorClass' = after[1]
        /\ faceIndicatorText' = after[2]
        /\ detections' = IF res = "error" THEN Remove(detections, i)
                          ELSE Remove(Overtake(detections, i), i)
        /\ lastEvent' = IF res = "error" THEN "detectFace:catch" ELSE "other"
  /\ UNCHANGED <<initPc, model, stream, videoReady, predictBtnDisabled,
                 statusText, polling, recorder, fetches, timers, display,
                 session>>

\* ------------------------------------------------------ capture capability
\* mediaRecorder.start() (line 116) throws unless the recorder is inactive
\* and the stream is still active
CanStart(state, active) == state = "inactive" /\ active

\* the recorder stops on its own (the track ended, the encoder failed): it
\* is inactivated and its stop event is queued
RecorderError ==
  /\ recState = "recording"
  /\ recState' = "inactive"
  /\ recStopping' = TRUE
  /\ lastEvent' = "other"
  /\ UNCHANGED <<initPc, model, stream, videoReady, predictBtnDisabled,
                 statusText, face, polling, detections, recordedChunks,
                 fetches, timers, display, session>>

\* ------------------------------------------------------ SessionController
Countdown0 == measurementDuration \div TickMs

\* the timers of earlier requests, seen from a newly accepted one
Aged(ticks) == {[t EXCEPT !.sess = t.sess + 1] : t \in ticks}

\* predictBtn.disabled = true (line 103)
DisabledOnAccept_Mutant == FALSE
DisabledOnAccept == TRUE

\* the body of the 3 s timeout (lines 94-96)
RevertedText_Unguarded_Mutant(text) == ReadyMsg
RevertedText_Mutant(text) == text
RevertedText(text) == IF text = RejectMsg THEN ReadyMsg ELSE text

\* clearInterval(faceCheckInterval) (line 104): the polling timers left
ClearInterval_Mutant(live, id) == live
ClearInterval(live, id) == live \ {id}

\* startMeasurement (lines 90-123), the click handler of predictBtn
StartMeasurement(streamActive) ==
  /\ ~predictBtnDisabled
  /\ IF ~FaceGateOpen(faceIndicatorClass)
       THEN /\ revertTimers < MaxReverts
            /\ statusText' = RejectMsg
            /\ revertTimers' = revertTimers + 1
            /\ lastEvent' = "other"
            /\ UNCHANGED <<predictBtnDisabled, polling, recorder, tickTimers,
                           stopTimers, display, session>>
       ELSE /\ \A t \in tickTimers : t.sess + 1 < MaxSessions
            /\ \A t \in stopTimers : t + 1 < MaxSessions
            /\ inSession' = TRUE
            /\ resultsPlaceholder' = "block"
            /\ resultsGrid' = "none"
            /\ predictBtnDisabled' = DisabledOnAccept
            /\ pollTimers' = ClearInterval(pollTimers, faceCheckInterval)
            /\ statusText' = RecordingMsg(Countdown0)
            /\ tickTimers' = Aged(tickTimers) \cup
                               {[sess |-> 0, countdown |-> Countdown0]}
            /\ sessSubmits' = 0
            /\ IF CanStart(recState, streamActive)
                 THEN /\ recState' = "recording"
                      /\ stopTimers' = {t + 1 : t \in stopTimers} \cup {0}
                      /\ sessStarts' = 1
                      /\ lastEvent' = "other"
                 ELSE /\ sessStarts' = 0
                      /\ lastEvent' = "other"
                      /\ stopTimers' = {t + 1 : t \in stopTimers}
                      /\ UNCHANGED recState
            /\ UNCHANGED <<faceCheckInterval, recStopping,
                           recordedChunks, revertTimers, hrValue, bpValue,
                           stressValue>>
  /\ UNCHANGED <<initPc, model, stream, videoReady, face, detections, fetches>>

\* the 3 s timeout of a rejection (lines 93-97)
RevertTimeout ==
  /\ revertTimers > 0
  /\ revertTimers' = revertTimers - 1
  /\ statusText' = RevertedText(statusText)
  /\ lastEvent' = "revertTimeout"
  /\ UNCHANGED <<initPc, model, stream, videoReady, predictBtnDisabled, face,
                 polling, detections, recorder, fetches, tickTimers,
                 stopTimers, display, session>>

\* the test that clears the countdown interval (line 113)
TickExpired_Mutant(c) == c < 0
TickExpired(c) == c <= 0

\* one tick of a countdown interval (lines 110-114)
CountdownTick(t) ==
  /\ t \in tickTimers
  /\ LET c == t.countdown - 1
     IN /\ statusText' = RecordingMsg(c)
        /\ tickTimers' =
             IF TickExpired(c) THEN tickTimers \ {t}
             ELSE (tickTimers \ {t}) \cup {[t EXCEPT !.countdown = c]}
  /\ lastEvent' = "other"
  /\ UNCHANGED <<initPc, model, stream, videoReady, predictBtnDisabled, face,
                 polling, detections, recorder, fetches, stopTimers,
                 revertTimers, display, session>>

\* the 30 s stop timeout (lines 117-122) armed by session s
StopTimeout(s) ==
  /\ s \in stopTimers
  /\ stopTimers' = stopTimers \ {s}
  /\ IF recState = "recording"
       THEN /\ recState' = "inactive"
            /\ recStopping' = TRUE
            /\ statusText' = ProcessingMsg
            /\ lastEvent' = "other"
       ELSE /\ lastEvent' = "other"
            /\ UNCHANGED <<recState, recStopping, statusText>>
  /\ UNCHANGED <<initPc, model, stream, videoReady, predictBtnDisabled, face,
                 polling, detections, recordedChunks, fetches,
                 tickTimers, revertTimers, display, session>>

\* ------------------------------------------------------------ Recorder
\* mediaRecorder.ondataavailable (line 46): the buffer after one event
OnDataAvailable(chunks, data) ==
  IF Len(data) > 0 THEN Append(chunks, data) ELSE chunks

RECURSIVE Delivered(_, _)
Delivered(chunks, events) ==
  IF events = <<>> THEN chunks
  ELSE Delivered(OnDataAvailable(chunks, Head(events)), Tail(events))

\* what the buffer is set to once the payload is built (line 49)
ClearedChunks_Mutant(chunks) == chunks
ClearedChunks(chunks) == <<>>

\* the task in which the recorder reports that it stopped: it delivers the
\* data gathered (dataavailable events) and then the stop event, which runs
\* mediaRecorder.onstop (lines 47-51) and sendToServerForPrediction
\* (lines 126-130) up to `await fetch`
OnStop(events) ==
  /\ recStopping
  /\ recStopping' = FALSE
  /\ LET chunks == Delivered(recordedChunks, events)
     IN /\ fetches' = Append(fetches, Blob(chunks))
        /\ recordedChunks' = ClearedChunks(chunks)
  /\ sessSubmits' = sessSubmits + 1
  /\ lastEvent' = "other"
  /\ UNCHANGED <<initPc, model, stream, videoReady, predictBtnDisabled,
                 statusText, face, polling, detections, recState, timers,
                 display, inSession, sessStarts>>

\* ------------------------------------------------------------ Submitter
PredictionOutcome_Mutant(resp) ==
  IF resp.status = "ok" /\ resp.body.parse = "object"
    THEN [thrown |-> "", rendered |-> "full"]
    ELSE [thrown |-> "Prediction failed.", rendered |-> "none"]

\* what lines 130-136 make of a settled request: the message of the
\* exception thrown ("" when none) and how far displayResults got
PredictionOutcome(resp) ==
  CASE resp.status = "failed" ->
         [thrown |-> FetchFailedText, rendered |-> "none"]
    [] resp.status = "error" ->
         [thrown |->
            CASE resp.body.parse = "fail" -> "Server returned an error."
              [] resp.body.parse = "null" -> NullReadText
              [] OTHER -> IF resp.body.error # "" THEN resp.body.error
                          ELSE "Prediction failed.",
          rendered |-> "none"]
    [] OTHER ->
         CASE resp.body.parse = "fail" ->
                [thrown |-> SyntaxErrorText, rendered |-> "none"]
           [] resp.body.parse = "null" ->
                [thrown |-> NullReadText, rendered |-> "toggled"]
           [] OTHER -> [thrown |-> "", rendered |-> "full"]

\* sendToServerForPrediction (lines 130-145), resumed when the request
\* settles, with displayResults (lines 149-161) inlined
PredictionSettled(i, resp) ==
  /\ i \in 1..Len(fetches)
  /\ fetches' = Remove(fetches, i)
  /\ LET out == PredictionOutcome(resp)
         data == resp.body
     IN /\ IF out.rendered = "none"
             THEN UNCHANGED <<resultsPlaceholder, resultsGrid>>
             ELSE resultsPlaceholder' = "none" /\ resultsGrid' = "flex"
        /\ IF out.rendered = "full"
             THEN /\ hrValue' = <<data.heart_rate, " bpm">>
                  /\ bpValue' = <<data.systolic_bp, "/", data.diastolic_bp,
                                  " mmHg">>
                  /\ stressValue' = StressOf(data)
                  /\ statusText' = CompleteMsg
                  /\ lastEvent' = "other"
             ELSE /\ statusText' = ErrorMsg(out.thrown)
                  /\ lastEvent' = "other"
                  /\ UNCHANGED <<hrValue, bpValue, stressValue>>
  /\ predictBtnDisabled' = FALSE
  /\ IF model
       THEN /\ faceCheckInterval' = FreshTimer(pollTimers)
            /\ pollTimers' = pollTimers \cup {FreshTimer(pollTimers)}
       ELSE UNCHANGED polling
  /\ inSession' = FALSE
  /\ UNCHANGED <<initPc, model, stream, videoReady, face, detections,
                 recorder, timers, sessStarts, sessSubmits>>

Next ==
  \/ \E ok \in BOOLEAN : LoadModel(ok)
  \/ \E o \in {"unsupported", "granted", "denied"} : InitializeWebcam(o)
  \/ \E ok \in BOOLEAN : OnLoadedMetadata(ok)
  \/ VideoReady
  \/ DetectFace
  \/ \E i \in 1..Len(detections), r \in {"face", "noface", "error"} :
       DetectFaceResume(i, r)
  \/ RecorderError
  \/ \E active \in BOOLEAN : StartMeasurement(active)
  \/ RevertTimeout
  \/ \E t \in tickTimers : CountdownTick(t)
  \/ \E s \in stopTimers : StopTimeout(s)
  \/ \E events \in ChunkEvents : OnStop(events)
  \/ \E i \in 1..Len(fetches), r \in Responses : PredictionSettled(i, r)

Spec == Init /\ [][Next]_vars

\* ======================================================================
\* Properties
\* ======================================================================
SessionActive == inSession
Busy == recState = "recording" \/ recStopping \/ Len(fetches) > 0
PollingOn == faceCheckInterval \in pollTimers

\* C1: every accepted request starts the recorder exactly once and makes
\* exactly one submission, whose payload is that recording's data; a
\* session never ends with zero or with several submissions.
C1_ExactlyOneStartAndSubmission ==
  [][/\ (~inSession /\ inSession') => sessStarts' = 1 /\ sessSubmits' = 0
     /\ \A events \in ChunkEvents :
          OnStop(events) =>
            /\ sessSubmits' = 1
            /\ fetches' = Append(fetches, Blob(events))
     /\ (inSession /\ ~inSession') => sessSubmits = 1]_vars

\* C2: from the acceptance of a request until its result or error is shown,
\* and whenever a recording is active or a submission is in flight, the
\* trigger is disabled; a recording and a submission, or two submissions,
\* never exist at the same time.
C2_TriggerDisabledWhileBusy ==
  /\ (SessionActive \/ Busy) => predictBtnDisabled
  /\ Len(fetches) + (IF recState = "recording" \/ recStopping THEN 1 ELSE 0) <= 1

C2_Witness ==
  /\ Len(fetches) = 1
  /\ predictBtnDisabled
  /\ \E t \in tickTimers : t.sess > 0
  /\ 1 \in stopTimers

\* C3: after a request is accepted the trigger is never left disabled with
\* nothing pending that would re-enable it: while it is disabled a recording
\* runs, a stop event is queued or a submission is in flight.
C3_NeverStuckDisabled == SessionActive => Busy

\* C4: a request is accepted iff the indicator is green when it is made; a
\* request made without green is rejected and starts no recording.
C4_AcceptedIffFacePresent ==
  [][/\ (~inSession /\ inSession') => "green" \in faceIndicatorClass
     /\ revertTimers' > revertTimers =>
          /\ ~("green" \in faceIndicatorClass)
          /\ inSession' = inSession
          /\ recState' = recState
          /\ stopTimers' = stopTimers]_vars

C4_Witness ==
  /\ inSession
  /\ revertTimers = 1
  /\ recState = "recording"

\* C5: between the acceptance of a request and the display of its result or
\* error no detection is started and the indicator does not change.
C5_NoMonitoringDuringSession ==
  [][SessionActive =>
       /\ faceIndicatorClass' = faceIndicatorClass
       /\ faceIndicatorText' = faceIndicatorText
       /\ Len(detections') <= Len(detections)]_vars

\* C6: the indicator always shows the result of the most recently started
\* poll among those that settled without an error: a poll that settles
\* after a poll started later has set the signal does not change it.
C6_SignalIsLatestPoll ==
  [][\A i \in 1..Len(detections) :
       (/\ detections[i].stale
        /\ \E r \in {"face", "noface", "error"} : DetectFaceResume(i, r))
       => faceIndicatorClass' = faceIndicatorClass]_vars

\* C7: a poll that finds the model or the video not ready starts no
\* detection, and such a poll or one whose detection fails changes neither
\* the indicator nor the status text, the trigger, the recorder, the timers,
\* the requests in flight or the result display.
C7_NoOpPollChangesNothing ==
  [][/\ (~model \/ ~videoReady) => Len(detections') <= Len(detections)
     /\ lastEvent' \in {"detectFace:notReady", "detectFace:catch"} =>
          UNCHANGED <<face, statusText, predictBtnDisabled, polling, recorder,
                      fetches, timers, display, session>>]_vars

C7_Witness ==
  /\ lastEvent = "detectFace:catch"
  /\ faceIndicatorClass = GreenClass
  /\ PollingOn

\* C8: a rejected request changes nothing but the status text, which shows
\* the rejection message; a revert timer is then pending, and when it fires
\* on the rejection message the text becomes the ready message.
C8_RejectionLeavesIdle ==
  [][/\ revertTimers' > revertTimers =>
          /\ statusText' = RejectMsg
          /\ ~predictBtnDisabled'
          /\ UNCHANGED <<predictBtnDisabled, polling, recorder, fetches,
                         tickTimers, stopTimers, display, session, face,
                         detections>>
     /\ (revertTimers' < revertTimers /\ statusText = RejectMsg) =>
          statusText' = ReadyMsg
     /\ statusText' = RejectMsg => revertTimers' > 0]_vars

\* after a session only a revert timer sets the ready message
C8_Witness ==
  /\ statusText = ReadyMsg
  /\ revertTimers = 0
  /\ sessSubmits = 1
  /\ ~inSession
  /\ PollingOn
  /\ ~predictBtnDisabled

\* C9: a success status whose body is not a well-formed metrics object ends
\* the session with an error message and without a rendered result.
C9_MalformedBodyIsAnError ==
  [][\A r \in Responses :
       (/\ r.status = "ok"
        /\ ~WellFormed(r.body)
        /\ \E i \in 1..Len(fetches) : PredictionSettled(i, r))
       => /\ statusText'.kind = ErrorMsg("").kind
          /\ resultsGrid' # "flex"]_vars

\* C10: a non-success status ends the session with the error text of the
\* body when it has one and with a fixed text otherwise; the trigger is
\* enabled again, polling runs again and the result display is untouched.
GenericMessages ==
  {"Server returned an error.", "Prediction failed.", NullReadText}
LevelByThresholds(hr, sys) ==
  IF hr > 100 \/ sys > 135 THEN "High"
  ELSE IF hr > 85 \/ sys > 125 THEN "Moderate"
  ELSE "Normal"

\* C12: a success status with a well-formed metrics body ends the session
\* with the result outcome: the display shows the heart rate, the pressures
\* and the stress level of that very response, the status text is the
\* completion message, the trigger is enabled and polling runs again.
C12_SuccessRendersResponse ==
  [][\A r \in Responses :
       (/\ r.status = "ok"
        /\ WellFormed(r.body)
        /\ \E i \in 1..Len(fetches) : PredictionSettled(i, r))
       => /\ resultsPlaceholder' = "none"
          /\ resultsGrid' = "flex"
          /\ hrValue' = <<r.body.heart_rate, " bpm">>
          /\ bpValue' = <<r.body.systolic_bp, "/", r.body.diastolic_bp,
                          " mmHg">>
          /\ stressValue' =
               LevelByThresholds(r.body.heart_rate.v, r.body.systolic_bp.v)
          /\ statusText' = CompleteMsg
          /\ ~predictBtnDisabled'
          /\ faceCheckInterval' \in pollTimers'
          /\ ~inSession']_vars

C12_Witness ==
  /\ hrValue = <<Num(95), " bpm">>
  /\ bpValue = <<Num(130), "/", Num(85), " mmHg">>
  /\ stressValue = "Moderate"
  /\ resultsGrid = "flex"
  /\ statusText = CompleteMsg
  /\ ~predictBtnDisabled
  /\ PollingOn
  /\ ~inSession

\* C13: the face-polling timer and a countdown tick timer are never both
\* active: the tick timer of a session is cleared before polling is
\* restarted at the end of that session, whatever the timing of the tick
\* timer, the stop timer, the stop event and the network response.
C13_PollingExcludesCountdown == ~(pollTimers # {} /\ tickTimers # {})

\* C14: at most one polling timer is alive, and it is the one the variable
\* faceCheckInterval holds, so that it can be cleared: initialisation,
\* accepted and rejected requests and session ends never leave two polling
\* intervals running nor one that cannot be cancelled.
C14_AtMostOnePollingTimer ==
  /\ Cardinality(pollTimers) <= 1
  /\ pollTimers \subseteq {faceCheckInterval}

C14_Witness ==
  /\ Cardinality(pollTimers) = 1
  /\ PollingOn
  /\ sessSubmits = 1
  /\ ~inSession
  /\ revertTimers = 1

\* C15: the page stops the recording of an accepted request only in the
\* stop timeout armed by that same request (the recording is always the one
\* of the latest request, whose timers count 0): a countdown tick never
\* touches the recorder, and the stop timeout of an earlier request never
\* stops the recording of a later one.
C15_OnlyOwnStopTimerStops ==
  [][/\ \A t \in tickTimers : CountdownTick(t) => UNCHANGED recorder
     /\ (recState = "recording" /\ recState' # "recording") =>
          (RecorderError \/ \E s \in stopTimers : StopTimeout(s))
     /\ \A s \in stopTimers :
          (recState = "recording" /\ StopTimeout(s)) => s = 0]_vars

\* C16: within an accepted session the status text only advances, from the
\* countdown messages to the processing message to the completion or error
\* message: a countdown tick of the session does not overwrite the
\* processing, the completion or the error message.
C16_StatusAdvancesMonotonically ==
  [][\A t \in tickTimers :
       (/\ t.sess = 0
        /\ \/ statusText = ProcessingMsg
           \/ statusText = CompleteMsg
           \/ statusText.kind = ErrorMsg("").kind
        /\ CountdownTick(t))
       => statusText' = statusText]_vars

NonEmptyChunks(events) == SelectSeq(events, LAMBDA c : c # <<>>)

\* C17: the payload submitted at a stop is the concatenation, in arrival
\* order, of exactly the non-empty chunks that arrived during that
\* recording; the buffer is empty after every stop and when a recording
\* starts, so no chunk of a session is in the payload of a later one.
C17_PayloadIsThisSessionsChunks ==
  [][/\ \A events \in ChunkEvents :
          OnStop(events) =>
            /\ fetches' = Append(fetches, Blob(NonEmptyChunks(events)))
            /\ recordedChunks' = <<>>
     /\ (recState # "recording" /\ recState' = "recording") =>
          recordedChunks' = <<>>]_vars

\* the second of two consecutive sessions (the tick timer of the first is
\* still alive) has submitted two chunks in order
C17_Witness ==
  /\ fetches = <<(<<2, 1>>)>>
  /\ recordedChunks = <<>>
  /\ \E t \in tickTimers : t.sess = 1
  /\ sessSubmits = 1

\* C18: a revert timeout replaces the rejection message only: when the
\* status text is anything else, or an accepted session is under way, it
\* leaves the status text as it is, and it changes nothing else.
C18_RevertOnlyReplacesRejection ==
  [][revertTimers' < revertTimers =>
       /\ statusText # RejectMsg => statusText' = statusText
       /\ inSession => statusText' = statusText
       /\ statusText' \in {statusText, ReadyMsg}
       /\ UNCHANGED <<predictBtnDisabled, face, polling, recorder, fetches,
                      tickTimers, stopTimers, display, session>>]_vars

C18_Witness ==
  /\ lastEvent = "revertTimeout"
  /\ inSession
  /\ statusText = ProcessingMsg

\* C19: the results grid is visible only after a session that ended with a
\* result: from the acceptance of a request to the end of its session the
\* placeholder is shown and the grid hidden, and a session that ends with an
\* error message leaves the grid hidden.
C19_GridOnlyAfterSuccess ==
  [][/\ inSession' => (resultsGrid' = "none" /\ resultsPlaceholder' = "block")
     /\ (inSession /\ ~inSession' /\ statusText'.kind = ErrorMsg("").kind) =>
          (resultsGrid' = "none" /\ resultsPlaceholder' = "block")]_vars

\* C20: the remaining seconds of a countdown stay within 0..Countdown0 (30
\* on the page), each tick shows one less than the tick before, and the
\* interval is cleared on the tick that shows 0: no tick shows a negative
\* value and none fires after 0 was shown.
C20_CountdownRange ==
  [][/\ \A t \in tickTimers' : t.countdown \in 1..Countdown0
     /\ statusText'.kind = RecordingMsg(0).kind =>
          statusText'.n \in 0..Countdown0
     /\ \A t \in tickTimers :
          CountdownTick(t) =>
            /\ statusText' = RecordingMsg(t.countdown - 1)
            /\ IF t.countdown = 1
                 THEN \A u \in tickTimers' : u.sess # t.sess
                 ELSE [t EXCEPT !.countdown = t.countdown - 1] \in tickTimers'
                        /\ t \notin tickTimers']_vars

\* the countdown showed 0 and was cleared while the recording goes on
C20_Witness ==
  /\ statusText = RecordingMsg(0)
  /\ tickTimers = {}
  /\ recState = "recording"

\* ----------------------------------------------------------------------
\* Rendering of every metrics body in a range: a submission is in flight
\* (the recording was stopped by its stop timer after the last tick) and
\* the endpoint answers with any heart rate and systolic pressure.
\* ----------------------------------------------------------------------
HeartRates == HrLo..HrHi
SystolicBps == SysLo..SysHi

StressInit ==
  /\ initPc = "done"
  /\ model = TRUE
  /\ stream = "live"
  /\ videoReady = TRUE
  /\ predictBtnDisabled = TRUE
  /\ statusText = ProcessingMsg
  /\ faceIndicatorClass = GreenClass
  /\ faceIndicatorText = "Face Detected"
  /\ faceCheckInterval = 1
  /\ pollTimers = {}
  /\ detections = <<>>
  /\ recState = "inactive"
  /\ recStopping = FALSE
  /\ recordedChunks = <<>>
  /\ fetches = <<(<<1>>)>>
  /\ tickTimers = {}
  /\ stopTimers = {}
  /\ revertTimers = 0
  /\ resultsPlaceholder = "block"
  /\ resultsGrid = "none"
  /\ hrValue = HtmlText
  /\ bpValue = HtmlText
  /\ stressValue = "--"
  /\ inSession = TRUE
  /\ sessStarts = 1
  /\ sessSubmits = 1
  /\ lastEvent = "other"

StressNext ==
  \E hr \in HeartRates, sys \in SystolicBps :
    PredictionSettled(1, [status |-> "ok", body |-> MetricsObj(hr, sys, 80)])

StressSpec == StressInit /\ [][StressNext]_vars

Rendered ==
  /\ resultsGrid = "flex"
  /\ hrValue[1].t = "number"
  /\ bpValue[1].t = "number"

\* C11 as stated: the rendered stress level is High iff heart rate > 100 or
\* systolic > 135, else Moderate iff heart rate > 85 or systolic > 125,
\* else Normal, and (100, 135) gives Normal, (101, 100) High, (90, 120)
\* Moderate.
C11_AsStated ==
  Rendered =>
    LET hr == hrValue[1].v
        sys == bpValue[1].v
    IN /\ stressValue = LevelByThresholds(hr, sys)
       /\ (hr = 100 /\ sys = 135) => stressValue = "Normal"
       /\ (hr = 101 /\ sys = 100) => stressValue = "High"
       /\ (hr = 90 /\ sys = 120) => stressValue = "Moderate"

\* C11 (amended): for every integer heart rate and systolic pressure of the
\* range the rendered stress level is High iff heart rate > 100 or systolic
\* > 135, else Moderate iff heart rate > 85 or systolic > 125, else Normal;
\* 100 and 135 do not reach High (they give Moderate, being above 85 and
\* 125) and 85 and 125 do not reach Moderate (they give Normal).
C11_StressThresholds ==
  Rendered =>
    LET hr == hrValue[1].v
        sys == bpValue[1].v
        high == hr > 100 \/ sys > 135
        moderate == ~high /\ (hr > 85 \/ sys > 125)
    IN /\ stressValue = "High" <=> high
       /\ stressValue = "Moderate" <=> moderate
       /\ stressValue = "Normal" <=> (~high /\ ~moderate)
       /\ (hr = 100 /\ sys = 135) => stressValue = "Moderate"
       /\ (hr = 85 /\ sys = 125) => stressValue = "Normal"
       /\ (hr = 101 /\ sys = 100) => stressValue = "High"
       /\ (hr = 90 /\ sys = 120) => stressValue = "Moderate"
       /\ (hr = 70 /\ sys = 110) => stressValue = "Normal"

C11_Witness ==
  /\ Rendered
  /\ hrValue[1].v = 85
  /\ bpValue[1].v = 125
  /\ stressValue = "Normal"
====
